---- MODULE Spec2Model ----
(***************************************************************************)
(* Model of monte_carlo_app.py: the Monte Carlo portfolio simulation that  *)
(* runs when the "Run Simulation" button is pressed.                       *)
(*                                                                         *)
(* Numbers.  The program computes in floating point; the model computes    *)
(* the same expressions in exact rational arithmetic (a rational is a      *)
(* normalised pair <<numerator, denominator>>), so rounding is not         *)
(* modelled.  Matrices are sequences of rows, a row is a sequence indexed  *)
(* 1..years+1, so that the program's cell [i, y] is row[y + 1] of row      *)
(* i + 1.                                                                  *)
(*                                                                         *)
(* Generator.  numpy's Generator is a deterministic function of the seed   *)
(* and of the draws made so far.  It is modelled as a small congruential   *)
(* generator whose words are mapped onto a grid of uniform values and a    *)
(* grid of standard-normal values.                                         *)
(***************************************************************************)
EXTENDS Integers, Sequences, FiniteSets, TLC

VARIABLES
    config,                   \* the widgets' values (lines 10-17)
    pc,                       \* position of the script
    error,                    \* the exception that ended the run, or "none"
    rng,                      \* the generator object (line 24)
    chunk_start,              \* loop variable of line 31
    chunk_end,                \* line 32
    current_chunk_size,       \* line 33
    i,                        \* loop variable of line 41
    portfolio_chunk,          \* line 36
    npv_chunk,                \* line 38
    portfolio_values_chunks,  \* line 28
    npv_over_time_chunks,     \* line 29
    portfolio_values,         \* line 69
    npv_over_time,            \* line 70
    draws,                    \* history: every draw made by the run, in order
    prev                      \* history: the results of the run just before

vars == <<config, pc, error, rng, chunk_start, chunk_end, current_chunk_size, i,
          portfolio_chunk, npv_chunk, portfolio_values_chunks,
          npv_over_time_chunks, portfolio_values, npv_over_time, draws, prev>>

-----------------------------------------------------------------------------
(* Bounds of the model *)

MaxYears == 2

-----------------------------------------------------------------------------
(* Exact rational arithmetic *)

Abs(n) == IF n < 0 THEN -n ELSE n

RECURSIVE GCD(_, _)
GCD(a, b) == IF b = 0 THEN a ELSE GCD(b, a % b)

\* n/d in lowest terms with a positive denominator (d # 0)
Rat(n, d) ==
    LET g == GCD(Abs(n), Abs(d))
        s == IF d < 0 THEN -1 ELSE 1
    IN  <<(s * n) \div g, (s * d) \div g>>

Int2Rat(n) == <<n, 1>>
Zero == <<0, 1>>
One == <<1, 1>>

RAdd(a, b) == Rat(a[1] * b[2] + b[1] * a[2], a[2] * b[2])
RNeg(a) == <<-a[1], a[2]>>
RSub(a, b) == RAdd(a, RNeg(b))
RMul(a, b) == Rat(a[1] * b[1], a[2] * b[2])
RDiv(a, b) == Rat(a[1] * b[2], a[2] * b[1])
RLt(a, b) == a[1] * b[2] < b[1] * a[2]
RGt(a, b) == RLt(b, a)
RIsZero(a) == a[1] = 0

RECURSIVE RPow(_, _)
RPow(a, k) == IF k = 0 THEN One ELSE RMul(a, RPow(a, k - 1))

Min(a, b) == IF a < b THEN a ELSE b

\* a cell of np.empty that no statement has assigned yet
Unassigned == <<0, 0>>

-----------------------------------------------------------------------------
(* The generator: np.random.default_rng, Generator.random, Generator.normal *)

UniformGrid == << <<0, 1>>, <<1, 2>>, <<7, 10>>, <<9, 10>> >>
NormalGrid == << <<-2, 1>>, <<-1, 1>>, <<0, 1>>, <<1, 1>> >>

\* a fresh generator whose state is a function of the seed alone
default_rng(seed) == [state |-> (seed * 7919 + 4111) % 65537]

\* the generator after producing one more word
advance(gen) == [state |-> (gen.state * 75 + 74) % 65537]

\* rng.random(): one word, mapped to a float in [0, 1)
rng_random(gen) ==
    LET n == advance(gen)
    IN  [rng |-> n,
         value |-> UniformGrid[((n.state \div 16) % Len(UniformGrid)) + 1]]

\* mutant: the scale argument left out, so that the default scale 1 applies
rng_normal_unit_scale(gen, loc, scale) ==
    IF RLt(scale, Zero)
    THEN [rng |-> gen, value |-> Zero, err |-> "ValueError"]
    ELSE LET n == advance(gen)
             z == NormalGrid[((n.state \div 16) % Len(NormalGrid)) + 1]
         IN  [rng |-> n, value |-> RAdd(loc, z), err |-> "none"]

\* rng.normal(loc, scale): ValueError for a negative scale (nothing is drawn),
\* otherwise one word, mapped to a standard-normal z, and loc + scale * z
rng_normal(gen, loc, scale) ==
    IF RLt(scale, Zero)
    THEN [rng |-> gen, value |-> Zero, err |-> "ValueError"]
    ELSE LET n == advance(gen)
             z == NormalGrid[((n.state \div 16) % Len(NormalGrid)) + 1]
         IN  [rng |-> n, value |-> RAdd(loc, RMul(scale, z)), err |-> "none"]

-----------------------------------------------------------------------------
(* One year of one path: lines 43-62 *)

\* mutant: ">=" for ">", a tie counts as "up"
previous_year_not_down(row, year) == ~RLt(row[year], row[year - 1])

\* ">" of line 47: the previous year closed above the year before it
previous_year_up(row, year) == RGt(row[year], row[year - 1])

\* the coin test "< 0.7" and the choice of the mean, lines 49 and 52
return_mean(up, coin, average_return) ==
    IF up
    THEN (IF RLt(coin, <<7, 10>>) THEN average_return ELSE RNeg(average_return))
    ELSE (IF RLt(coin, <<7, 10>>) THEN RNeg(average_return) ELSE average_return)

DrawEntry(kind, g, year, loc, value) ==
    [kind |-> kind, sim |-> g, year |-> year, loc |-> loc, value |-> value]

\* mutant: both normal alternatives are drawn before the coin chooses one
random_return_eager(cfg, g, year, row, gen, log) ==
    IF year = 1
    THEN LET d == rng_normal(gen, cfg.average_return, cfg.std_dev)
         IN  [rng |-> d.rng, value |-> d.value, err |-> d.err,
              log |-> IF d.err = "none"
                      THEN Append(log, DrawEntry("normal", g, year,
                                                 cfg.average_return, d.value))
                      ELSE log]
    ELSE LET up == previous_year_up(row, year)
             plus == rng_normal(gen, cfg.average_return, cfg.std_dev)
             minus == rng_normal(plus.rng, RNeg(cfg.average_return), cfg.std_dev)
             coin == rng_random(minus.rng)
             mean == return_mean(up, coin.value, cfg.average_return)
             d == IF mean = cfg.average_return THEN plus ELSE minus
         IN  [rng |-> coin.rng, value |-> d.value, err |-> minus.err,
              log |-> IF minus.err = "none"
                      THEN log \o <<DrawEntry("normal", g, year,
                                              cfg.average_return, plus.value),
                                     DrawEntry("normal", g, year,
                                               RNeg(cfg.average_return), minus.value),
                                     DrawEntry("uniform", g, year, Zero, coin.value)>>
                      ELSE log]

\* random_return of lines 43-52, for path g (its row so far is `row`):
\* the draws it makes, appended to log, and the generator after them
random_return(cfg, g, year, row, gen, log) ==
    IF year = 1
    THEN LET d == rng_normal(gen, cfg.average_return, cfg.std_dev)
         IN  [rng |-> d.rng, value |-> d.value, err |-> d.err,
              log |-> IF d.err = "none"
                      THEN Append(log, DrawEntry("normal", g, year,
                                                 cfg.average_return, d.value))
                      ELSE log]
    ELSE LET up == previous_year_up(row, year)
             coin == rng_random(gen)
             mean == return_mean(up, coin.value, cfg.average_return)
             d == rng_normal(coin.rng, mean, cfg.std_dev)
             log1 == Append(log, DrawEntry("uniform", g, year, Zero, coin.value))
         IN  [rng |-> d.rng, value |-> d.value, err |-> d.err,
              log |-> IF d.err = "none"
                      THEN Append(log1, DrawEntry("normal", g, year, mean, d.value))
                      ELSE log1]

\* mutant: the return is applied before the contribution is added
portfolio_update_growth_first(previous, annual_contribution, r) ==
    RAdd(RMul(previous, RAdd(One, r)), annual_contribution)

\* line 55
portfolio_update(previous, annual_contribution, r) ==
    RMul(RAdd(previous, annual_contribution), RAdd(One, r))

\* mutant: the initial investment discounted by one year
npv_first_discounted(initial_investment, discount_rate) ==
    RDiv(initial_investment, RPow(RAdd(One, discount_rate), 1))

\* line 59: the exponent is 0, and x ** 0 is 1 for every x
npv_first(initial_investment, discount_rate) ==
    RDiv(initial_investment, RPow(RAdd(One, discount_rate), 0))

\* the divisor (1 + discount_rate) ** year of lines 61-62
discount_factor(discount_rate, year) == RPow(RAdd(One, discount_rate), year)

\* mutant: the growth term not net of the contribution
npv_update_gross_growth(npv_previous, annual_contribution, value, previous, factor) ==
    RAdd(RAdd(npv_previous, RDiv(annual_contribution, factor)),
         RDiv(RSub(value, previous), factor))

\* lines 61-62
npv_update(npv_previous, annual_contribution, value, previous, factor) ==
    RAdd(RAdd(npv_previous, RDiv(annual_contribution, factor)),
         RDiv(RSub(RSub(value, previous), annual_contribution), factor))

\* the body of the year loop (lines 43-62) on a path's state
\* st = [row, nrow, rng, log, err]
YearStep(cfg, g, year, st) ==
    LET rr == random_return(cfg, g, year, st.row, st.rng, st.log)
        value == portfolio_update(st.row[year], cfg.annual_contribution, rr.value)
        row1 == [st.row EXCEPT ![year + 1] = value]
        factor == discount_factor(cfg.discount_rate, year)
    IN  IF rr.err # "none"
        THEN [st EXCEPT !.rng = rr.rng, !.log = rr.log, !.err = rr.err]
        ELSE IF year = 1
        THEN [row |-> row1,
              nrow |-> [st.nrow EXCEPT ![year + 1] =
                           npv_first(cfg.initial_investment, cfg.discount_rate)],
              rng |-> rr.rng, log |-> rr.log, err |-> "none"]
        ELSE IF RIsZero(factor)
        THEN [row |-> row1, nrow |-> st.nrow, rng |-> rr.rng, log |-> rr.log,
              err |-> "ZeroDivisionError"]
        ELSE [row |-> row1,
              nrow |-> [st.nrow EXCEPT ![year + 1] =
                           npv_update(st.nrow[year], cfg.annual_contribution,
                                      value, st.row[year], factor)],
              rng |-> rr.rng, log |-> rr.log, err |-> "none"]

\* mutant: range(1, years), the last year is never simulated
last_year_short(years) == years - 1

\* the upper end of range(1, years + 1), line 42
last_year(years) == years

\* the year loop of line 42 from `year` on, stopping at an exception
RECURSIVE RunYears(_, _, _, _)
RunYears(cfg, g, year, st) ==
    IF year > last_year(cfg.years) \/ st.err # "none"
    THEN st
    ELSE RunYears(cfg, g, year + 1, YearStep(cfg, g, year, st))

-----------------------------------------------------------------------------
(* The values the widgets of lines 10-17 can hold *)

chunk_size == 100

Half == <<1, 2>>

\* configurations the widgets allow: years in 1..50, simulations a multiple
\* of 100 from 100 on, the rates in [0, 1], the amounts integers >= 0
WidgetConfigs ==
    [initial_investment : {Int2Rat(0), Int2Rat(1000)},
     years : 1..MaxYears,
     simulations : {chunk_size, 2 * chunk_size},
     average_return : {Zero, Half},
     std_dev : {Zero, Half},
     annual_contribution : {Int2Rat(0), Int2Rat(100)},
     discount_rate : {Zero, One},
     random_seed : {0, 1}]

-----------------------------------------------------------------------------
(* The script *)

NoRng == [state |-> -1]
NoPrev == [ran |-> FALSE, portfolio_values |-> <<>>, npv_over_time |-> <<>>]

\* the names of a script run that no statement has bound yet
Unbound ==
    /\ chunk_start' = 0
    /\ chunk_end' = 0
    /\ current_chunk_size' = 0
    /\ i' = 0
    /\ portfolio_chunk' = <<>>
    /\ npv_chunk' = <<>>
    /\ portfolio_values' = <<>>
    /\ npv_over_time' = <<>>

\* the user changes the widgets: the script reruns with run_simulation False
\* (line 20) and computes nothing
SetInputs(c) ==
    /\ pc \in {"idle", "done", "error"}
    /\ c # config
    /\ config' = c
    /\ pc' = "idle"
    /\ error' = "none"
    /\ rng' = NoRng
    /\ portfolio_values_chunks' = <<>>
    /\ npv_over_time_chunks' = <<>>
    /\ Unbound
    /\ draws' = <<>>
    /\ prev' = NoPrev

\* mutant: the generator of the previous run is kept when there is one
RunSimulation_KeepsGenerator ==
    /\ pc \in {"idle", "done", "error"}
    /\ pc' = "chunk_loop"
    /\ error' = "none"
    /\ rng' = IF rng = NoRng THEN default_rng(config.random_seed) ELSE rng
    /\ portfolio_values_chunks' = <<>>
    /\ npv_over_time_chunks' = <<>>
    /\ Unbound
    /\ draws' = <<>>
    /\ prev' = IF pc = "done"
               THEN [ran |-> TRUE, portfolio_values |-> portfolio_values,
                     npv_over_time |-> npv_over_time]
               ELSE NoPrev
    /\ UNCHANGED config

\* the button is pressed: the script reruns from its first line with
\* run_simulation True; lines 22-29, and the for statement of line 31 made ready
RunSimulation ==
    /\ pc \in {"idle", "done", "error"}
    /\ pc' = "chunk_loop"
    /\ error' = "none"
    /\ rng' = default_rng(config.random_seed)
    /\ portfolio_values_chunks' = <<>>
    /\ npv_over_time_chunks' = <<>>
    /\ Unbound
    /\ draws' = <<>>
    /\ prev' = IF pc = "done"
               THEN [ran |-> TRUE, portfolio_values |-> portfolio_values,
                     npv_over_time |-> npv_over_time]
               ELSE NoPrev
    /\ UNCHANGED config

\* mutant: the end of the chunk not clamped to the number of simulations
chunk_end_unclamped(start, simulations) == start + chunk_size

\* line 32
chunk_end_of(start, simulations) == Min(start + chunk_size, simulations)

\* np.empty((n, years + 1)) with column 0 set, lines 36-37
new_portfolio_chunk(n, years, initial_investment) ==
    [r \in 1..n |-> [y \in 1..(years + 1) |->
                        IF y = 1 THEN initial_investment ELSE Unassigned]]

\* np.zeros((n, years + 1)), line 38
new_npv_chunk(n, years) == [r \in 1..n |-> [y \in 1..(years + 1) |-> Zero]]

\* one more chunk: lines 31-38.  np.empty refuses a negative dimension and
\* column 0 of a matrix without columns does not exist
ChunkBegin ==
    /\ pc = "chunk_loop"
    /\ chunk_start < config.simulations
    /\ chunk_end' = chunk_end_of(chunk_start, config.simulations)
    /\ current_chunk_size' = chunk_end' - chunk_start
    /\ i' = 0
    /\ IF config.years + 1 < 0
       THEN /\ pc' = "error"
            /\ error' = "ValueError"
            /\ UNCHANGED <<portfolio_chunk, npv_chunk>>
       ELSE IF config.years + 1 = 0
       THEN /\ pc' = "error"
            /\ error' = "IndexError"
            /\ portfolio_chunk' = [r \in 1..current_chunk_size' |-> <<>>]
            /\ UNCHANGED npv_chunk
       ELSE /\ pc' = "path_loop"
            /\ error' = "none"
            /\ portfolio_chunk' = new_portfolio_chunk(current_chunk_size',
                                      config.years, config.initial_investment)
            /\ npv_chunk' = new_npv_chunk(current_chunk_size', config.years)
    /\ UNCHANGED <<config, rng, chunk_start, portfolio_values_chunks,
                   npv_over_time_chunks, portfolio_values, npv_over_time,
                   draws, prev>>

\* one pass of the loop of line 41: all the years of path i of the chunk
SimulatePath ==
    /\ pc = "path_loop"
    /\ i < current_chunk_size
    /\ LET st == RunYears(config, chunk_start + i, 1,
                          [row |-> portfolio_chunk[i + 1],
                           nrow |-> npv_chunk[i + 1],
                           rng |-> rng, log |-> draws, err |-> "none"])
       IN  /\ portfolio_chunk' = [portfolio_chunk EXCEPT ![i + 1] = st.row]
           /\ npv_chunk' = [npv_chunk EXCEPT ![i + 1] = st.nrow]
           /\ rng' = st.rng
           /\ draws' = st.log
           /\ error' = st.err
           /\ IF st.err = "none"
              THEN pc' = "path_loop" /\ i' = i + 1
              ELSE pc' = "error" /\ i' = i
    /\ UNCHANGED <<config, chunk_start, chunk_end, current_chunk_size,
                   portfolio_values_chunks, npv_over_time_chunks,
                   portfolio_values, npv_over_time, prev>>

\* the chunk is complete: lines 65-66, and the next value of range() of line 31
ChunkAppend ==
    /\ pc = "path_loop"
    /\ i >= current_chunk_size
    /\ portfolio_values_chunks' = Append(portfolio_values_chunks, portfolio_chunk)
    /\ npv_over_time_chunks' = Append(npv_over_time_chunks, npv_chunk)
    /\ chunk_start' = chunk_start + chunk_size
    /\ pc' = "chunk_loop"
    /\ UNCHANGED <<config, error, rng, chunk_end, current_chunk_size, i,
                   portfolio_chunk, npv_chunk, portfolio_values, npv_over_time,
                   draws, prev>>

\* np.concatenate(chunks, axis=0)
RECURSIVE concatenate(_)
concatenate(chunks) ==
    IF chunks = <<>> THEN <<>> ELSE Head(chunks) \o concatenate(Tail(chunks))

\* the chunk loop is over: lines 69-70 (np.concatenate refuses an empty list).
\* Lines 72-112 plot and print the two matrices and change nothing.
Concatenate ==
    /\ pc = "chunk_loop"
    /\ chunk_start >= config.simulations
    /\ IF portfolio_values_chunks = <<>>
       THEN /\ pc' = "error"
            /\ error' = "ValueError"
            /\ UNCHANGED <<portfolio_values, npv_over_time>>
       ELSE /\ pc' = "done"
            /\ error' = "none"
            /\ portfolio_values' = concatenate(portfolio_values_chunks)
            /\ npv_over_time' = concatenate(npv_over_time_chunks)
    /\ UNCHANGED <<config, rng, chunk_start, chunk_end, current_chunk_size, i,
                   portfolio_chunk, npv_chunk, portfolio_values_chunks,
                   npv_over_time_chunks, draws, prev>>

Step == RunSimulation \/ ChunkBegin \/ SimulatePath \/ ChunkAppend \/ Concatenate

InitWith(configs) ==
    /\ config \in configs
    /\ pc = "idle"
    /\ error = "none"
    /\ rng = NoRng
    /\ chunk_start = 0
    /\ chunk_end = 0
    /\ current_chunk_size = 0
    /\ i = 0
    /\ portfolio_chunk = <<>>
    /\ npv_chunk = <<>>
    /\ portfolio_values_chunks = <<>>
    /\ npv_over_time_chunks = <<>>
    /\ portfolio_values = <<>>
    /\ npv_over_time = <<>>
    /\ draws = <<>>
    /\ prev = NoPrev

\* the application: every configuration comes from the widgets
Init == InitWith(WidgetConfigs)
Next == (\E c \in WidgetConfigs : SetInputs(c)) \/ Step
Spec == Init /\ [][Next]_vars

-----------------------------------------------------------------------------
(* The simulation block of lines 22-70 called on any configuration, also   *)
(* one the widgets would not produce: a number of simulations that is no   *)
(* multiple of the chunk size, years < 1, simulations < 1, std_dev < 0,    *)
(* discount_rate = -1                                                      *)

EngineConfigs ==
    [initial_investment : {Int2Rat(1000)},
     years : (-1)..MaxYears,
     simulations : {0, 1, chunk_size, chunk_size + 1, 2 * chunk_size + 50},
     average_return : {Half},
     std_dev : {RNeg(Half), Zero, Half},
     annual_contribution : {Int2Rat(100)},
     discount_rate : {RNeg(One), Zero, One},
     random_seed : {0, 1}]

InitEngine == InitWith(EngineConfigs)
NextEngine == (\E c \in EngineConfigs : SetInputs(c)) \/ Step
SpecEngine == InitEngine /\ [][NextEngine]_vars

-----------------------------------------------------------------------------
(* Vocabulary of the properties *)

Done == pc = "done"

\* the cell [g, y] of a result matrix (g and y count from 0, as in the code)
Cell(matrix, g, y) == matrix[g + 1][y + 1]

Paths == 0..(config.simulations - 1)

\* a path makes one draw in year 1 and two in every later year
DrawsPerPath == 2 * config.years - 1

\* where, in the run's sequence of draws, path g makes its draws of year y
NormalAt(g, y) == g * DrawsPerPath + 2 * y - 1
UniformAt(g, y) == g * DrawsPerPath + 2 * y - 2

InvalidConfig(c) ==
    \/ c.years < 1
    \/ c.simulations < 1
    \/ RLt(c.std_dev, Zero)
    \/ c.discount_rate = RNeg(One)

\* some cell of the matrix has been assigned a value
HasCell(matrix) ==
    \E r \in 1..Len(matrix) : \E y \in 1..Len(matrix[r]) : matrix[r][y] # Unassigned

AnyCellWritten ==
    \/ HasCell(portfolio_chunk)
    \/ HasCell(npv_chunk)
    \/ HasCell(portfolio_values)
    \/ HasCell(npv_over_time)

-----------------------------------------------------------------------------
(* C1: fail fast on an invalid configuration *)

-----------------------------------------------------------------------------
(* C2: determinism *)

\* C2: a run that follows a completed run of the same configuration (the
\* button pressed again, the widgets untouched) ends with the same two
\* matrices, cell for cell.
C2_Determinism ==
    (Done /\ prev.ran) =>
        /\ portfolio_values = prev.portfolio_values
        /\ npv_over_time = prev.npv_over_time

\* a second run has completed whose paths depend on the draws
C2_Witness ==
    /\ Done
    /\ prev.ran
    /\ config.std_dev # Zero
    /\ \E g \in Paths : portfolio_values[g + 1] # portfolio_values[1]

-----------------------------------------------------------------------------
(* C3: chunking changes nothing *)

\* all the simulations one by one in a single loop, no chunks: path g starts
\* from the generator as path g - 1 left it
RECURSIVE UnchunkedFrom(_, _, _)
UnchunkedFrom(cfg, g, acc) ==
    IF g >= cfg.simulations
    THEN acc
    ELSE LET st == RunYears(cfg, g, 1,
                      [row |-> [y \in 1..(cfg.years + 1) |->
                                   IF y = 1 THEN cfg.initial_investment
                                            ELSE Unassigned],
                       nrow |-> [y \in 1..(cfg.years + 1) |-> Zero],
                       rng |-> acc.rng, log |-> acc.log, err |-> "none"])
         IN  UnchunkedFrom(cfg, g + 1,
                 [portfolio |-> Append(acc.portfolio, st.row),
                  npv |-> Append(acc.npv, st.nrow),
                  rng |-> st.rng, log |-> st.log])

Unchunked(cfg) ==
    UnchunkedFrom(cfg, 0, [portfolio |-> <<>>, npv |-> <<>>,
                           rng |-> default_rng(cfg.random_seed), log |-> <<>>])

\* C3: a completed run has made the draws of the unchunked loop, in the same
\* (simulation, year) order, has left the generator where that loop leaves
\* it, and its two matrices are those of that loop, row for row.
C3_ChunkingIsNoOp ==
    Done =>
        LET ref == Unchunked(config)
        IN  /\ draws = ref.log
            /\ rng = ref.rng
            /\ portfolio_values = ref.portfolio
            /\ npv_over_time = ref.npv

\* a run of several chunks, the last one shorter, has completed
C3_Witness ==
    /\ Done
    /\ Len(portfolio_values_chunks) = 3
    /\ Len(portfolio_values_chunks[3]) < chunk_size
    /\ config.years >= 2
    /\ config.std_dev # Zero

-----------------------------------------------------------------------------
(* C4: shape *)

RECURSIVE SumOfLens(_)
SumOfLens(chunks) ==
    IF chunks = <<>> THEN 0 ELSE Len(Head(chunks)) + SumOfLens(Tail(chunks))

\* C4: when a run on simulations >= 1 and years >= 1 completes, both matrices
\* have `simulations` rows of years + 1 assigned cells; the chunks' row counts
\* sum to `simulations`, every chunk but the last has chunk_size rows and the
\* last has between 1 and chunk_size.
C4_Shape ==
    (Done /\ config.simulations >= 1 /\ config.years >= 1) =>
        /\ Len(portfolio_values) = config.simulations
        /\ Len(npv_over_time) = config.simulations
        /\ \A g \in Paths :
              /\ Len(portfolio_values[g + 1]) = config.years + 1
              /\ Len(npv_over_time[g + 1]) = config.years + 1
              /\ \A y \in 0..config.years :
                    /\ Cell(portfolio_values, g, y) # Unassigned
                    /\ Cell(npv_over_time, g, y) # Unassigned
        /\ SumOfLens(portfolio_values_chunks) = config.simulations
        /\ SumOfLens(npv_over_time_chunks) = config.simulations
        /\ \A k \in 1..Len(portfolio_values_chunks) :
              LET n == Len(portfolio_values_chunks[k])
              IN  /\ Len(npv_over_time_chunks[k]) = n
                  /\ n >= 1
                  /\ n <= chunk_size
                  /\ (k < Len(portfolio_values_chunks) => n = chunk_size)

\* a run whose last chunk is shorter than the others has completed
C4_Witness ==
    /\ Done
    /\ config.simulations = chunk_size + 1
    /\ config.years = 2
    /\ Len(portfolio_values_chunks) = 2
    /\ Len(portfolio_values_chunks[2]) = 1

-----------------------------------------------------------------------------
(* C5: the NPV recurrence *)

\* C5: in a completed run every NPV path has npv[0] = 0, npv[1] =
\* initial_investment whatever the discount rate, and for y >= 2
\* npv[y] = npv[y-1] + contribution / (1+d)^y
\*                   + (value[y] - value[y-1] - contribution) / (1+d)^y.
C5_NpvRecurrence ==
    Done =>
        \A g \in Paths :
            /\ Cell(npv_over_time, g, 0) = Zero
            /\ Cell(npv_over_time, g, 1) = config.initial_investment
            /\ \A y \in 2..config.years :
                  LET f == RPow(RAdd(One, config.discount_rate), y)
                      growth == RSub(RSub(Cell(portfolio_values, g, y),
                                          Cell(portfolio_values, g, y - 1)),
                                     config.annual_contribution)
                  IN  Cell(npv_over_time, g, y) =
                          RAdd(Cell(npv_over_time, g, y - 1),
                               RAdd(RDiv(config.annual_contribution, f),
                                    RDiv(growth, f)))

\* a run with a discount rate, a contribution and a year 2 has completed, and
\* some path's year-2 growth is not zero
C5_Witness ==
    /\ Done
    /\ config.discount_rate = One
    /\ config.initial_investment = Int2Rat(1000)
    /\ config.annual_contribution = Int2Rat(100)
    /\ config.years >= 2
    /\ \E g \in Paths :
          Cell(npv_over_time, g, 2) # Cell(npv_over_time, g, 1)

-----------------------------------------------------------------------------
(* C6: the portfolio recurrence *)

\* C6: in a completed run every path has value[0] = initial_investment and,
\* for every year y >= 1, value[y] = (value[y-1] + contribution) * (1 + r),
\* r being the normal draw that path made in year y.
C6_PortfolioRecurrence ==
    Done =>
        \A g \in Paths :
            /\ Cell(portfolio_values, g, 0) = config.initial_investment
            /\ \A y \in 1..config.years :
                  LET d == draws[NormalAt(g, y)]
                  IN  /\ d.kind = "normal" /\ d.sim = g /\ d.year = y
                      /\ Cell(portfolio_values, g, y) =
                             RMul(RAdd(Cell(portfolio_values, g, y - 1),
                                       config.annual_contribution),
                                  RAdd(One, d.value))

\* a run with a contribution has completed in which some year's return is
\* neither 0 nor -1, so that the place of the contribution shows
C6_Witness ==
    /\ Done
    /\ config.annual_contribution = Int2Rat(100)
    /\ config.initial_investment = Int2Rat(1000)
    /\ config.years >= 2
    /\ \E g \in Paths :
          /\ draws[NormalAt(g, 2)].value = Half
          /\ draws[NormalAt(g, 1)].value = RNeg(Half)

-----------------------------------------------------------------------------
(* C7: no return, no volatility *)

\* C7: with average_return = 0 and std_dev = 0 every path of a completed run
\* has value[y] = value[y-1] + contribution for every year y >= 1, hence
\* value[y] = initial_investment + y * contribution.
C7_ContributionFloor ==
    (Done /\ config.average_return = Zero /\ config.std_dev = Zero) =>
        \A g \in Paths : \A y \in 1..config.years :
            /\ Cell(portfolio_values, g, y) =
                   RAdd(Cell(portfolio_values, g, y - 1), config.annual_contribution)
            /\ Cell(portfolio_values, g, y) =
                   RAdd(config.initial_investment,
                        RMul(Int2Rat(y), config.annual_contribution))

\* the scenario 1000, 1100, 1200 has been computed, on a path whose coin
\* fell below 0.7 and on a path whose coin did not
C7_Witness ==
    /\ Done
    /\ config.average_return = Zero
    /\ config.std_dev = Zero
    /\ config.initial_investment = Int2Rat(1000)
    /\ config.annual_contribution = Int2Rat(100)
    /\ config.years = 2
    /\ portfolio_values[1] = <<Int2Rat(1000), Int2Rat(1100), Int2Rat(1200)>>
    /\ \E g \in Paths : RLt(draws[UniformAt(g, 2)].value, <<7, 10>>)
    /\ \E g \in Paths : ~RLt(draws[UniformAt(g, 2)].value, <<7, 10>>)

-----------------------------------------------------------------------------
(* C8: the regime *)

\* the mean C8 gives the normal draw of path g in year y > 1, the coin being u
C8_Mean(g, y, u) ==
    LET up == RGt(Cell(portfolio_values, g, y - 1), Cell(portfolio_values, g, y - 2))
        below == RLt(u, <<7, 10>>)
    IN  IF (up /\ below) \/ (~up /\ ~below)
        THEN config.average_return
        ELSE RNeg(config.average_return)

\* C8: in a completed run, year 1 of every path is one normal draw of mean
\* +average_return; every later year is a coin u and then a normal draw whose
\* mean is +average_return iff (value[y-1] > value[y-2] and u < 0.7) or
\* (value[y-1] <= value[y-2] and u >= 0.7), and -average_return otherwise.
C8_Regime ==
    Done =>
        \A g \in Paths :
            /\ draws[NormalAt(g, 1)].kind = "normal"
            /\ draws[NormalAt(g, 1)].loc = config.average_return
            /\ \A k \in 1..Len(draws) :
                  (draws[k].sim = g /\ draws[k].year = 1) => draws[k].kind = "normal"
            /\ \A y \in 2..config.years :
                  LET u == draws[UniformAt(g, y)]
                      d == draws[NormalAt(g, y)]
                  IN  /\ u.kind = "uniform" /\ u.sim = g /\ u.year = y
                      /\ d.kind = "normal" /\ d.sim = g /\ d.year = y
                      /\ d.loc = C8_Mean(g, y, u.value)

\* a tie value[1] = value[0] whose coin is exactly 0.7: the regime is "down"
\* and the mean +average_return, with average_return # 0
C8_Witness ==
    /\ Done
    /\ config.average_return = Half
    /\ config.years >= 2
    /\ \E g \in Paths :
          /\ Cell(portfolio_values, g, 1) = Cell(portfolio_values, g, 0)
          /\ draws[UniformAt(g, 2)].value = <<7, 10>>
          /\ draws[NormalAt(g, 2)].loc = Half

-----------------------------------------------------------------------------
(* C9: the draws a path consumes *)

\* C9: whenever a path is about to start, the run has made (2 * years - 1)
\* draws for each earlier path; in a completed run the draws of path g are
\* those at g * (2 * years - 1) + 1 ..: one normal draw for year 1, then for
\* each later year one uniform draw followed by one normal draw.
C9_DrawCount ==
    /\ (pc = "path_loop" /\ config.years >= 1) =>
           Len(draws) = (chunk_start + i) * DrawsPerPath
    /\ Done =>
           /\ Len(draws) = config.simulations * DrawsPerPath
           /\ \A g \in Paths :
                 LET path == SubSeq(draws, g * DrawsPerPath + 1,
                                    (g + 1) * DrawsPerPath)
                 IN  /\ \A k \in 1..DrawsPerPath : path[k].sim = g
                     /\ path[1].kind = "normal" /\ path[1].year = 1
                     /\ \A y \in 2..config.years :
                           /\ path[2 * y - 2].kind = "uniform"
                           /\ path[2 * y - 2].year = y
                           /\ path[2 * y - 1].kind = "normal"
                           /\ path[2 * y - 1].year = y

\* a run has completed in which all four of (regime, coin side) occurred
C9_Witness ==
    /\ Done
    /\ config.years >= 2
    /\ \A up \in BOOLEAN : \A below \in BOOLEAN :
          \E g \in Paths :
              /\ RGt(Cell(portfolio_values, g, 1), Cell(portfolio_values, g, 0)) = up
              /\ RLt(draws[UniformAt(g, 2)].value, <<7, 10>>) = below

-----------------------------------------------------------------------------
(* C10: the contribution terms cancel *)

\* C10: in a completed run, for every path and every year y >= 2,
\* npv[y] - npv[y-1] = (value[y] - value[y-1]) / (1+d)^y; and with
\* discount_rate = 0, npv[y] = initial_investment + value[y] - value[1] for
\* every year y >= 1.
C10_ContributionCancels ==
    Done =>
        \A g \in Paths :
            /\ \A y \in 2..config.years :
                  RSub(Cell(npv_over_time, g, y), Cell(npv_over_time, g, y - 1)) =
                      RDiv(RSub(Cell(portfolio_values, g, y),
                                Cell(portfolio_values, g, y - 1)),
                           RPow(RAdd(One, config.discount_rate), y))
            /\ config.discount_rate = Zero =>
                  \A y \in 1..config.years :
                      Cell(npv_over_time, g, y) =
                          RAdd(config.initial_investment,
                               RSub(Cell(portfolio_values, g, y),
                                    Cell(portfolio_values, g, 1)))

\* the scenario: discount rate 0, values 1000, 1100, 1200, NPV 0, 1000, 1100
C10_Witness ==
    /\ Done
    /\ config.discount_rate = Zero
    /\ config.annual_contribution = Int2Rat(100)
    /\ portfolio_values[1] = <<Int2Rat(1000), Int2Rat(1100), Int2Rat(1200)>>
    /\ npv_over_time[1] = <<Zero, Int2Rat(1000), Int2Rat(1100)>>

====
